---- MODULE Spec2Model ----
(***************************************************************************)
(* System monitor: the consumer-side state owner (src/src/app.rs, App),     *)
(* the sampling scheduler (src/src/monitor.rs, Monitor::run), and the      *)
(* consumer loop with the channel between the two (src/src/main.rs).       *)
(*                                                                         *)
(* Time is counted in units of 500 microseconds, the scheduler's sleep.    *)
(* f32/f64 values are exact non-negative rationals [n, d] in lowest terms; *)
(* d = 0 encodes the IEEE results of a division by zero: [n |-> 1, d |-> 0]*)
(* is +inf and [n |-> 0, d |-> 0] is NaN.  Rounding of the floating-point  *)
(* operations is not modelled.                                             *)
(***************************************************************************)
EXTENDS Integers, Sequences, FiniteSets, TLC

VARIABLES
    \* ---- App (src/src/app.rs:5-34)
    should_quit,
    cpu_history_total, ram_history, net_rx_history, net_tx_history,
    cpu_core_history,
    processes, last_stats,
    max_history_len,
    accumulated_stats,
    chart_tick_count,
    process_scroll_state, process_sort_by_cpu,
    \* ---- bookkeeping of the App runs: number of on_tick calls so far, the
    \*      operation that produced the current state, and the number of
    \*      boundaries since the heatmap rows were last reset (that boundary
    \*      included)
    delivered, last_op, heat_columns,
    \* ---- the scheduler thread (src/src/monitor.rs:64-173): the locals of the
    \*      loop, the network totals held by self.networks, the sample
    \*      assembled by the last wake
    now, last_fast_tick, last_slow_tick,
    prev_rx, prev_tx, last_net_check,
    net_rx_total, net_tx_total,
    sent_stats,
    \* ---- the readings held by self.sys (monitor.rs:38): per-core CPU
    \*      percentages, memory, process table
    sys_cpu_usage, sys_ram_used, sys_ram_total, sys_processes,
    \* ---- whether the thread runs or has panicked; whether the build checks
    \*      integer overflow (debug profile) or wraps (release profile)
    mon_state, overflow_checks,
    \* ---- bookkeeping of the scheduler runs: number of wakes so far, refreshes
    \*      made by the last wake, instants of the latest refreshes
    wakes, fast_fires, slow_fires, fast_fired_at, slow_fired_at,
    \* ---- the channel of main.rs:29: the samples sent and not yet received;
    \*      bookkeeping: the timestamps of the samples put into it, in order
    channel, produced,
    \* ---- the consumer loop run_app (main.rs:54-102): its position, whether
    \*      it still holds the receiver; bookkeeping: the timestamps of the
    \*      samples handed to on_tick, in order, and the number of samples
    \*      produced when the latest drain began
    ui_pc, rx_alive, applied, drain_mark

app_vars == <<should_quit, cpu_history_total, ram_history, net_rx_history,
              net_tx_history, cpu_core_history, processes, last_stats,
              max_history_len, accumulated_stats, chart_tick_count,
              process_scroll_state, process_sort_by_cpu, delivered, last_op,
              heat_columns>>

sched_vars == <<now, last_fast_tick, last_slow_tick, prev_rx, prev_tx,
                last_net_check, net_rx_total, net_tx_total, sent_stats,
                mon_state, overflow_checks, wakes, fast_fires, slow_fires,
                fast_fired_at, slow_fired_at>>

host_vars == <<sys_cpu_usage, sys_ram_used, sys_ram_total, sys_processes>>

chan_vars == <<channel, produced>>

mon_vars == <<sched_vars, host_vars, chan_vars>>

loop_vars == <<ui_pc, rx_alive, applied, drain_mark>>

vars == <<app_vars, mon_vars, loop_vars>>

-----------------------------------------------------------------------------
(* Bounds of the model *)

\* largest history capacity handed to App::new
MaxCap == 2
\* number of samples delivered to App::on_tick in one run
MaxDelivered == 4

\* number of iterations of the scheduler loop in one run
MaxWakes == 5
\* number of samples waiting in the channel, where the scheduler runs without
\* end
MaxQueue == 6
\* the network counters and speeds are u64; the model keeps them below this
\* modulus (2^30) so that its products stay within 32-bit integers
U64Modulus == 1073741824

(* Program constants, in model units *)

\* units of 500 us in a second (Duration::as_secs_f64, monitor.rs:111)
TicksPerSec == 2000
\* monitor.rs:60  target_interval, 1000 us
FastInterval == 2
\* monitor.rs:90  slow_interval, 500 ms
SlowInterval == 1000
\* monitor.rs:121  `time_delta >= 0.5`
NetThreshold == 1000
\* monitor.rs:170  thread::sleep(500 us)
SleepTicks == 1
\* monitor.rs:138  procs.truncate(20)
ProcessTruncate == 20

\* main.rs:28  App::new(200)
MainHistoryLen == 200
\* app.rs:84  `elapsed().as_secs_f64() >= 0.1`: 0.1 s = 200 units of 500 us
ChartInterval == 200
\* app.rs:105,112  heatmap width
HeatmapWidth == 100
\* app.rs:115  `core_avg as u8` saturates at u8::MAX
U8Max == 255

-----------------------------------------------------------------------------
(* Floating-point values *)

Min(a, b) == IF a <= b THEN a ELSE b

RECURSIVE GCD(_, _)
GCD(a, b) == IF b = 0 THEN a ELSE GCD(b, a % b)

\* a finite non-negative value n/d (d > 0), in lowest terms
Rat(n, d) == LET g == GCD(n, d) IN [n |-> n \div g, d |-> d \div g]

NaN == [n |-> 0, d |-> 0]
Inf == [n |-> 1, d |-> 0]

\* IEEE division of two non-negative numbers: x/0 is +inf, 0/0 is NaN
FDiv(n, d) == IF d = 0 THEN (IF n = 0 THEN NaN ELSE Inf) ELSE Rat(n, d)

IsFinite(v) == v.d # 0

\* `x as u8` of a non-negative float: truncates, saturates, NaN becomes 0
AsU8(v) == IF v.d = 0 THEN (IF v.n = 0 THEN 0 ELSE U8Max)
           ELSE Min(v.n \div v.d, U8Max)

RECURSIVE SeqSum(_)
SeqSum(s) == IF s = <<>> THEN 0 ELSE Head(s) + SeqSum(Tail(s))

-----------------------------------------------------------------------------
(* Samples (monitor.rs:15-30, SystemStats) delivered to the App.  Usage      *)
(* percentages and byte counts are integers here.                           *)

ProcA == [pid |-> 1, cpu |-> 30, mem |-> 100]

Stat10 == [cpu_usage |-> <<10, 10>>, total_cpu_usage |-> 10,
           ram_used |-> 50, ram_total |-> 200,
           rx_speed |-> 1000, tx_speed |-> 0, processes |-> <<ProcA>>]
Stat20 == [cpu_usage |-> <<10, 30>>, total_cpu_usage |-> 20,
           ram_used |-> 150, ram_total |-> 200,
           rx_speed |-> 3000, tx_speed |-> 1000, processes |-> <<ProcA>>]
\* a degraded reading: one core listed, the memory read returned zeros
Stat30 == [cpu_usage |-> <<30>>, total_cpu_usage |-> 30,
           ram_used |-> 0, ram_total |-> 0,
           rx_speed |-> 0, tx_speed |-> 0, processes |-> <<>>]

AppSamples == {Stat10, Stat20, Stat30}

\* readings of last_chart_update.elapsed() at app.rs:84
ElapsedReadings == {ChartInterval - 1, ChartInterval}

Keys == {"q", "j", "k", "s", "x"}

\* key codes handed to App::on_key_code (app.rs:167-187)
KeyCodes == {"q", "j", "k", "s", "Down", "Up", "Esc"}

(* Process tables returned by sys.processes() (monitor.rs:128), in the      *)
(* iteration order of the map.                                              *)

TableOne == <<ProcA>>

\* the orders by CPU and by memory differ, and two entries tie on the CPU
TableThree == <<[pid |-> 1, cpu |-> 30, mem |-> 100],
                [pid |-> 2, cpu |-> 20, mem |-> 300],
                [pid |-> 3, cpu |-> 20, mem |-> 200]>>

\* more processes than a sample keeps; the more memory a process holds the
\* less CPU it uses
TableBig == [i \in 1..(ProcessTruncate + 2) |->
                [pid |-> i, cpu |-> ProcessTruncate + 2 - i, mem |-> 10 * i]]

ProcTables == {TableOne, TableThree, TableBig}

\* one reading of the host: per-core CPU, memory, process table
HostA == [cpu_usage |-> <<10, 30>>, ram_used |-> 150, ram_total |-> 200,
          processes |-> TableOne]

HostReadings == {HostA}

-----------------------------------------------------------------------------
(* App::on_tick, process ranking (app.rs:65-72).  sort_by is a stable sort. *)

RECURSIVE InsertDesc(_, _, _)
InsertDesc(sorted, x, key) ==
    IF sorted = <<>> THEN <<x>>
    ELSE IF Head(sorted)[key] >= x[key]
         THEN <<Head(sorted)>> \o InsertDesc(Tail(sorted), x, key)
         ELSE <<x>> \o sorted

RECURSIVE StableSortDesc(_, _)
StableSortDesc(s, key) ==
    IF s = <<>> THEN <<>>
    ELSE InsertDesc(StableSortDesc(SubSeq(s, 1, Len(s) - 1), key), s[Len(s)], key)

\* faulty variant: the view always ranked by the CPU
SortProcsByCpuOnly(procs, by_cpu) == StableSortDesc(procs, "cpu")

\* app.rs:67-71
SortProcs(procs, by_cpu) ==
    IF by_cpu THEN StableSortDesc(procs, "cpu") ELSE StableSortDesc(procs, "mem")

-----------------------------------------------------------------------------
(* App::update_charts (app.rs:90-137)                                       *)

\* VecDeque::pop_front: None on an empty deque, which is left as it is
PopFront(q) == IF q = <<>> THEN q ELSE Tail(q)

\* faulty variant: the guard of line 91 left out
WindowNeverEmpty(acc) == FALSE

\* app.rs:91
WindowIsEmpty(acc) == acc = <<>>

\* faulty variant: the tick index advanced by two
NextTickSkips(t) == t + 2

\* app.rs:93
NextTick(t) == t + 1

\* app.rs:94,97  mean of the aggregate CPU percentage
AvgCpu(acc) ==
    FDiv(SeqSum([k \in 1..Len(acc) |-> acc[k].total_cpu_usage]), Len(acc))

\* faulty variant: the total taken from the newest sample of the window
RamPercentLastTotal(acc) ==
    LET used  == SeqSum([k \in 1..Len(acc) |-> acc[k].ram_used])
        total == IF acc = <<>> THEN 0 ELSE acc[Len(acc)].ram_total
    IN  FDiv(100 * used, Len(acc) * total)

\* app.rs:124-127  (mean(ram_used) / ram_total of the first sample) * 100;
\* the index [0] exists, line 91 has returned otherwise
RamPercent(acc) ==
    LET used  == SeqSum([k \in 1..Len(acc) |-> acc[k].ram_used])
        total == IF acc = <<>> THEN 0 ELSE acc[1].ram_total
    IN  FDiv(100 * used, Len(acc) * total)

\* app.rs:130-131
AvgRx(acc) == FDiv(SeqSum([k \in 1..Len(acc) |-> acc[k].rx_speed]), Len(acc))
AvgTx(acc) == FDiv(SeqSum([k \in 1..Len(acc) |-> acc[k].tx_speed]), Len(acc))

\* faulty variant: the mean taken over the samples that list core i
CoreAvgPresentOnly(acc, i) ==
    FDiv(SeqSum([k \in 1..Len(acc) |->
                    IF i <= Len(acc[k].cpu_usage) THEN acc[k].cpu_usage[i] ELSE 0]),
         SeqSum([k \in 1..Len(acc) |->
                    IF i <= Len(acc[k].cpu_usage) THEN 1 ELSE 0]))

\* app.rs:109-110  a sample without core i counts as 0.0
CoreAvg(acc, i) ==
    FDiv(SeqSum([k \in 1..Len(acc) |->
                    IF i <= Len(acc[k].cpu_usage) THEN acc[k].cpu_usage[i] ELSE 0]),
         Len(acc))

\* faulty variant: the rows kept and only their number adjusted
ResizeRows(rows, core_count) ==
    [i \in 1..core_count |-> IF i <= Len(rows) THEN rows[i] ELSE <<>>]

\* app.rs:104-106
ResetRows(rows, core_count) ==
    IF Len(rows) # core_count THEN [i \in 1..core_count |-> <<>>] ELSE rows

\* faulty variant: the oldest cell evicted only above the width
PushCellLate(row, v) ==
    Append(IF Len(row) > HeatmapWidth THEN PopFront(row) ELSE row, v)

\* app.rs:112-115
PushCell(row, v) ==
    Append(IF Len(row) >= HeatmapWidth THEN PopFront(row) ELSE row, v)

\* app.rs:102-117
HeatmapAfter(rows, acc) ==
    IF acc = <<>> THEN rows
    ELSE LET core_count == Len(acc[1].cpu_usage)
             r == ResetRows(rows, core_count)
         IN  [i \in 1..core_count |-> PushCell(r[i], AsU8(CoreAvg(acc, i)))]

\* app.rs:120-121, 126-127, 132-133  evict the oldest point at capacity, append
PushPoint(series, cap, pt) ==
    Append(IF Len(series) >= cap THEN PopFront(series) ELSE series, pt)

\* faulty variant: the transmit series never evicted
PushPointTxKeeps(rx_series, tx_series, cap, pt) == Append(tx_series, pt)

\* app.rs:132,134  the transmit series is evicted on the receive series' length
PushPointTx(rx_series, tx_series, cap, pt) ==
    Append(IF Len(rx_series) >= cap THEN PopFront(tx_series) ELSE tx_series, pt)

\* faulty variant: the window kept after the boundary
KeepWindow(acc) == acc

\* app.rs:136
ClearedWindow(acc) == <<>>

UpdateCharts(acc) ==
    IF WindowIsEmpty(acc)
    THEN /\ accumulated_stats' = acc
         /\ UNCHANGED <<chart_tick_count, cpu_core_history, cpu_history_total,
                        ram_history, net_rx_history, net_tx_history,
                        heat_columns>>
    ELSE LET t == NextTick(chart_tick_count) IN
         /\ chart_tick_count' = t
         /\ cpu_core_history' = HeatmapAfter(cpu_core_history, acc)
         /\ heat_columns' =
                IF acc = <<>> THEN heat_columns
                ELSE IF Len(cpu_core_history) # Len(acc[1].cpu_usage)
                     THEN 1 ELSE heat_columns + 1
         /\ cpu_history_total' =
                PushPoint(cpu_history_total, max_history_len, <<t, AvgCpu(acc)>>)
         /\ ram_history' =
                PushPoint(ram_history, max_history_len, <<t, RamPercent(acc)>>)
         /\ net_rx_history' =
                PushPoint(net_rx_history, max_history_len, <<t, AvgRx(acc)>>)
         /\ net_tx_history' =
                PushPointTx(net_rx_history, net_tx_history, max_history_len,
                            <<t, AvgTx(acc)>>)
         /\ accumulated_stats' = ClearedWindow(acc)

-----------------------------------------------------------------------------
(* The operations of App                                                    *)

\* App::new (app.rs:37-58)
AppInit ==
    /\ should_quit = FALSE
    /\ cpu_history_total = <<>>
    /\ ram_history = <<>>
    /\ net_rx_history = <<>>
    /\ net_tx_history = <<>>
    /\ cpu_core_history = <<>>
    /\ heat_columns = 0
    /\ processes = <<>>
    /\ last_stats = <<>>
    /\ accumulated_stats = <<>>
    /\ chart_tick_count = 0
    /\ process_scroll_state = 0
    /\ process_sort_by_cpu = TRUE
    /\ delivered = 0
    /\ last_op = "new"

\* App::on_tick (app.rs:60-88); `elapsed` is the reading of
\* last_chart_update.elapsed() at line 84.  Line 86 restarts that clock, so
\* every later reading is again any duration.  The copies of disks and
\* temperatures (lines 62-63) are not kept.  run_app returns once
\* should_quit is set (main.rs:83-85) and calls nothing after that.
OnTick(stats, elapsed) ==
    /\ ~should_quit
    /\ delivered < MaxDelivered
    /\ processes' = SortProcs(stats.processes, process_sort_by_cpu)
    /\ last_stats' = <<stats>>
    /\ LET acc == Append(accumulated_stats, stats) IN
          IF elapsed >= ChartInterval
          THEN UpdateCharts(acc)
          ELSE /\ accumulated_stats' = acc
               /\ UNCHANGED <<chart_tick_count, cpu_core_history,
                              cpu_history_total, ram_history, net_rx_history,
                              net_tx_history, heat_columns>>
    /\ delivered' = delivered + 1
    /\ last_op' = "on_tick"
    /\ UNCHANGED <<should_quit, max_history_len, process_scroll_state,
                   process_sort_by_cpu>>

\* App::update_charts entered on its own, with the window as it stands
UpdateChartsCall ==
    /\ ~should_quit
    /\ UpdateCharts(accumulated_stats)
    /\ last_op' = IF accumulated_stats = <<>> THEN "boundary_empty" ELSE "boundary"
    /\ UNCHANGED <<should_quit, processes, last_stats, max_history_len,
                   process_scroll_state, process_sort_by_cpu, delivered>>

\* App::on_key (app.rs:139-163), with main.rs:76-79 for 'q'
OnKey(c) ==
    /\ ~should_quit
    /\ should_quit' = IF c = "q" THEN TRUE ELSE should_quit
    /\ process_scroll_state' =
          CASE c = "j" -> IF processes # <<>>
                          THEN Min(process_scroll_state + 1, Len(processes) - 1)
                          ELSE process_scroll_state
            [] c = "k" -> IF process_scroll_state > 0
                          THEN process_scroll_state - 1
                          ELSE process_scroll_state
            [] c = "s" -> 0
            [] OTHER   -> process_scroll_state
    /\ process_sort_by_cpu' =
          IF c = "s" THEN ~process_sort_by_cpu ELSE process_sort_by_cpu
    /\ last_op' = "on_key"
    /\ UNCHANGED <<cpu_history_total, ram_history, net_rx_history,
                   net_tx_history, cpu_core_history, processes, last_stats,
                   max_history_len, accumulated_stats, chart_tick_count,
                   delivered, heat_columns>>

\* App::on_key_code (app.rs:167-187); main.rs does not call it
OnKeyCode(code) ==
    /\ ~should_quit
    /\ should_quit' = IF code = "q" THEN TRUE ELSE should_quit
    /\ process_scroll_state' =
          CASE code \in {"j", "Down"} ->
                   IF processes # <<>>
                   THEN Min(process_scroll_state + 1, Len(processes) - 1)
                   ELSE process_scroll_state
            [] code \in {"k", "Up"} ->
                   IF process_scroll_state > 0
                   THEN process_scroll_state - 1
                   ELSE process_scroll_state
            [] code = "s" -> 0
            [] OTHER      -> process_scroll_state
    /\ process_sort_by_cpu' =
          IF code = "s" THEN ~process_sort_by_cpu ELSE process_sort_by_cpu
    /\ last_op' = "on_key_code"
    /\ UNCHANGED <<cpu_history_total, ram_history, net_rx_history,
                   net_tx_history, cpu_core_history, processes, last_stats,
                   max_history_len, accumulated_stats, chart_tick_count,
                   delivered, heat_columns>>

-----------------------------------------------------------------------------
(* The scheduler loop, Monitor::run (monitor.rs:64-173)                     *)

\* cumulative (received, transmitted) byte totals summed over the interfaces
\* (monitor.rs:112-116); the sum drops when an interface leaves the list
NetReadings == {<<0, 0>>, <<1000, 500>>, <<3000, 1500>>}

\* time from the thread's start to the first reading of `now` (monitor.rs:75)
StartDelays == {0, 1}
\* time from one reading of `now` to the next: the sleep and the work of the
\* iteration, or a stall of the thread
WakeDelays == {SleepTicks, FastInterval, SlowInterval, 4 * SlowInterval}

\* faulty variant: a cadence that fires once for every period missed
CatchUpFires(elapsed, interval) == elapsed \div interval

\* monitor.rs:78, 91  one `if` per cadence and per wake
CadenceFires(elapsed, interval) == IF elapsed >= interval THEN 1 ELSE 0

\* faulty variant: the next fire scheduled one period after the previous one
TickAfterFireCatchUp(at, last, interval) == last + interval

\* monitor.rs:85, 98  last_fast_tick = now; last_slow_tick = now
TickAfterFire(at, last, interval) == at

\* faulty variant: the previous counters advanced on every wake
NetAdvanceAlways(time_delta) == time_delta > 0

\* monitor.rs:121
NetAdvanceDue(time_delta) == time_delta >= NetThreshold

\* `x as u64` of a float: saturates at u64::MAX
U64Max == U64Modulus - 1

\* monitor.rs:118-119  the wrapped difference (a release build)
WrappingSub(curr, prev) == (curr - prev) % U64Modulus

\* monitor.rs:118-119  (delta as f64 / time_delta) as u64, time_delta in
\* seconds; the quotient is cut to an integer and saturates
SpeedOf(delta, dt) ==
    IF dt > 0
    THEN LET hi == delta \div dt
             lo == delta % dt
         IN  IF hi >= U64Modulus \div TicksPerSec
             THEN U64Max
             ELSE Min(hi * TicksPerSec + (lo * TicksPerSec) \div dt, U64Max)
    ELSE 0

\* monitor.rs:118-119  the subtraction is evaluated only when time_delta > 0
Underflows(curr, prev, dt) == dt > 0 /\ curr < prev

\* monitor.rs:106-108  mean of the per-core percentages, 0.0 without cores;
\* the host readings of the model have a whole mean
TotalCpu(cores) ==
    IF cores = <<>> THEN 0 ELSE SeqSum(cores) \div Len(cores)

\* Vec::truncate
Truncate(s, n) == SubSeq(s, 1, Min(Len(s), n))

\* monitor.rs:128-138  the table sorted by CPU, descending, and cut
TopProcs(table) == Truncate(StableSortDesc(table, "cpu"), ProcessTruncate)

\* monitor.rs:150-165  the sample; swap, disks and temperatures are not kept
Assemble(cores, used, total, table, rx, tx, rx_speed, tx_speed, at) ==
    [cpu_usage       |-> cores,
     total_cpu_usage |-> TotalCpu(cores),
     ram_used        |-> used,
     ram_total       |-> total,
     rx_bytes        |-> rx,
     tx_bytes        |-> tx,
     rx_speed        |-> rx_speed,
     tx_speed        |-> tx_speed,
     processes       |-> TopProcs(table),
     timestamp       |-> at]

\* Sender::send on the unbounded channel (monitor.rs:167): the message is
\* queued behind the earlier ones without waiting; with the receiver dropped
\* the call returns Err and queues nothing
ChannelAfterSend(ch, alive, msg) == IF alive THEN Append(ch, msg) ELSE ch

\* faulty variant: the loop left when the send fails
AfterSendStops(sent_ok) == IF sent_ok THEN "running" ELSE "stopped"

\* monitor.rs:167  `let _ =` drops the result of the send
AfterSend(sent_ok) == "running"

\* state after thread::spawn, before the first iteration (monitor.rs:66-72);
\* the totals are those of Networks::new_with_refreshed_list (monitor.rs:49)
\* and the host readings those of refresh_all (monitor.rs:52)
MonInit ==
    /\ now = 0
    /\ last_fast_tick = 0
    /\ last_slow_tick = 0
    /\ prev_rx = 0
    /\ prev_tx = 0
    /\ last_net_check = 0
    /\ sent_stats = <<>>
    /\ channel = <<>>
    /\ produced = <<>>
    /\ mon_state = "running"
    /\ wakes = 0
    /\ fast_fires = 0
    /\ slow_fires = 0
    /\ fast_fired_at = 0
    /\ slow_fired_at = 0

\* one iteration of the loop (monitor.rs:74-171): `delay` is the time since the
\* previous reading of `now`, `reading` the totals a network refresh returns,
\* `host` what a refresh of the CPU, the memory and the processes returns.
Wake(delay, reading, host) ==
    /\ mon_state = "running"
    /\ wakes < MaxWakes
    /\ delay \in (IF wakes = 0 THEN StartDelays ELSE WakeDelays)
    /\ wakes' = wakes + 1
    /\ now' = now + delay
    \* 1. fast loop
    /\ fast_fires' = CadenceFires(now' - last_fast_tick, FastInterval)
    /\ last_fast_tick' = IF fast_fires' > 0
                         THEN TickAfterFire(now', last_fast_tick, FastInterval)
                         ELSE last_fast_tick
    /\ fast_fired_at' = IF fast_fires' > 0 THEN now' ELSE fast_fired_at
    /\ sys_cpu_usage' = IF fast_fires' > 0 THEN host.cpu_usage ELSE sys_cpu_usage
    /\ sys_ram_used' = IF fast_fires' > 0 THEN host.ram_used ELSE sys_ram_used
    /\ sys_ram_total' = IF fast_fires' > 0 THEN host.ram_total ELSE sys_ram_total
    \* 2. slow loop
    /\ slow_fires' = CadenceFires(now' - last_slow_tick, SlowInterval)
    /\ last_slow_tick' = IF slow_fires' > 0
                         THEN TickAfterFire(now', last_slow_tick, SlowInterval)
                         ELSE last_slow_tick
    /\ slow_fired_at' = IF slow_fires' > 0 THEN now' ELSE slow_fired_at
    /\ net_rx_total' = IF slow_fires' > 0 THEN reading[1] ELSE net_rx_total
    /\ net_tx_total' = IF slow_fires' > 0 THEN reading[2] ELSE net_tx_total
    /\ sys_processes' = IF slow_fires' > 0 THEN host.processes ELSE sys_processes
    \* network speed
    /\ LET time_delta == now' - last_net_check
           curr_rx == net_rx_total'
           curr_tx == net_tx_total'
       IN  IF overflow_checks /\ (\/ Underflows(curr_rx, prev_rx, time_delta)
                                  \/ Underflows(curr_tx, prev_tx, time_delta))
           THEN \* "attempt to subtract with overflow": the thread ends
                /\ mon_state' = "panicked"
                /\ UNCHANGED <<prev_rx, prev_tx, last_net_check, sent_stats,
                               channel, produced>>
           ELSE /\ mon_state' = AfterSend(rx_alive)
                /\ prev_rx' = IF NetAdvanceDue(time_delta) THEN curr_rx ELSE prev_rx
                /\ prev_tx' = IF NetAdvanceDue(time_delta) THEN curr_tx ELSE prev_tx
                /\ last_net_check' =
                      IF NetAdvanceDue(time_delta) THEN now' ELSE last_net_check
                /\ sent_stats' =
                      <<Assemble(sys_cpu_usage', sys_ram_used', sys_ram_total',
                                 sys_processes', curr_rx, curr_tx,
                                 SpeedOf(WrappingSub(curr_rx, prev_rx), time_delta),
                                 SpeedOf(WrappingSub(curr_tx, prev_tx), time_delta),
                                 now')>>
                /\ channel' = ChannelAfterSend(channel, rx_alive, sent_stats'[1])
                /\ produced' = IF rx_alive THEN Append(produced, now')
                                ELSE produced
    /\ UNCHANGED overflow_checks

\* the refresh of the process table, the assembly of the sample
\* (monitor.rs:94, 127-165) and its delivery to on_tick (main.rs:90-93) in one
\* step, for the ranking of the processes
SampleProcesses(table, elapsed) ==
    /\ sys_processes' = table
    /\ OnTick(Assemble(sys_cpu_usage, sys_ram_used, sys_ram_total, table,
                       net_rx_total, net_tx_total,
                       SpeedOf(WrappingSub(net_rx_total, prev_rx),
                               now - last_net_check),
                       SpeedOf(WrappingSub(net_tx_total, prev_tx),
                               now - last_net_check),
                       now),
              elapsed)
    /\ UNCHANGED <<sched_vars, chan_vars, sys_cpu_usage, sys_ram_used,
                   sys_ram_total, loop_vars>>

-----------------------------------------------------------------------------
(* The consumer loop, run_app (main.rs:54-102).  The waiting time of the     *)
(* poll is bounded by the tick rate (main.rs:66-70), so the poll returns;   *)
(* its duration is not kept.                                                *)

\* what event::poll / event::read deliver: a character key, or nothing that
\* on_key is called for (the timeout, a key without character)
PollEvents == Keys \cup {"timeout"}

\* state at the entry of run_app (main.rs:59-62)
LoopInit ==
    /\ ui_pc = "draw"
    /\ rx_alive = TRUE
    /\ applied = <<>>
    /\ drain_mark = 0

\* main.rs:64  terminal.draw reads the App
UiDraw ==
    /\ ui_pc = "draw"
    /\ ui_pc' = "poll"
    /\ UNCHANGED <<app_vars, mon_vars, rx_alive, applied, drain_mark>>

\* main.rs:66-85  poll, the key handed to on_key, the return on should_quit
\* (which drops the receiver), else the entry of the drain
UiPoll(ev) ==
    /\ ui_pc = "poll"
    /\ IF ev \in Keys THEN OnKey(ev) ELSE UNCHANGED app_vars
    /\ ui_pc' = IF should_quit' THEN "done" ELSE "drain"
    /\ rx_alive' = ~should_quit'
    /\ drain_mark' = IF should_quit' THEN drain_mark ELSE Len(produced)
    /\ UNCHANGED <<mon_vars, applied>>

\* faulty variant: the newest message taken
ReceivedNewest(ch) == ch[Len(ch)]

\* main.rs:90  try_recv returns the oldest message of the channel
ReceivedMsg(ch) == Head(ch)

\* faulty variant: the drain left after one message
AfterApplyLeaves(ch) == "draw"

\* main.rs:90  `while let`: the loop tries the channel again
AfterApply(ch) == "drain"

\* main.rs:90-95  try_recv returns a sample, which on_tick applies
UiRecvMsg(elapsed) ==
    /\ ui_pc = "drain"
    /\ channel # <<>>
    /\ OnTick(ReceivedMsg(channel), elapsed)
    /\ channel' = Tail(channel)
    /\ applied' = Append(applied, ReceivedMsg(channel).timestamp)
    /\ ui_pc' = AfterApply(channel')
    /\ UNCHANGED <<sched_vars, host_vars, produced, rx_alive, drain_mark>>

\* main.rs:90, 98-101  try_recv finds the channel empty: the drain ends and
\* the loop goes back to the draw
UiRecvEmpty ==
    /\ ui_pc = "drain"
    /\ channel = <<>>
    /\ ui_pc' = "draw"
    /\ UNCHANGED <<app_vars, mon_vars, rx_alive, applied, drain_mark>>

-----------------------------------------------------------------------------
(* Specifications                                                           *)

\* self.sys as a refresh left it
HostIs(host) ==
    /\ sys_cpu_usage = host.cpu_usage
    /\ sys_ram_used = host.ram_used
    /\ sys_ram_total = host.ram_total
    /\ sys_processes = host.processes

\* the scheduler of an App run that is not looked at
MonIdle ==
    /\ MonInit
    /\ net_rx_total = 0
    /\ net_tx_total = 0
    /\ HostIs(HostA)
    /\ overflow_checks = FALSE

\* the App of a scheduler run that is not looked at
AppIdle ==
    /\ AppInit
    /\ max_history_len = MainHistoryLen

InitApp ==
    /\ AppInit
    /\ max_history_len \in 0..MaxCap
    /\ MonIdle
    /\ LoopInit

NextApp ==
    \/ /\ \E s \in AppSamples, elapsed \in ElapsedReadings : OnTick(s, elapsed)
       /\ UNCHANGED <<mon_vars, loop_vars>>
    \/ /\ UpdateChartsCall
       /\ UNCHANGED <<mon_vars, loop_vars>>
    \/ /\ \E c \in Keys : OnKey(c)
       /\ UNCHANGED <<mon_vars, loop_vars>>

SpecApp == InitApp /\ [][NextApp]_vars

InitMon ==
    /\ MonInit
    /\ \E r \in NetReadings : net_rx_total = r[1] /\ net_tx_total = r[2]
    /\ overflow_checks \in BOOLEAN
    /\ HostIs(HostA)
    /\ AppIdle
    /\ LoopInit

NextMon ==
    /\ \E delay \in StartDelays \cup WakeDelays, reading \in NetReadings,
          host \in HostReadings :
          Wake(delay, reading, host)
    /\ UNCHANGED <<app_vars, loop_vars>>

SpecMon == InitMon /\ [][NextMon]_vars

\* the process ranking: samples assembled from the process tables, and the
\* keys
InitRank ==
    /\ AppInit
    /\ max_history_len = MainHistoryLen
    /\ MonIdle
    /\ LoopInit

NextRank ==
    \/ \E table \in ProcTables, elapsed \in ElapsedReadings :
          SampleProcesses(table, elapsed)
    \/ /\ \E c \in Keys : OnKey(c)
       /\ UNCHANGED <<mon_vars, loop_vars>>
    \/ /\ \E code \in KeyCodes : OnKeyCode(code)
       /\ UNCHANGED <<mon_vars, loop_vars>>

SpecRank == InitRank /\ [][NextRank]_vars

\* an App whose heatmap rows are about to fill: the state after WarmColumns
\* boundaries, each over a window of one sample, Stat10 and Stat20 in turn;
\* `delivered` counts the on_tick calls from there on
WarmColumns == HeatmapWidth - 2

WarmSample(k) == IF k % 2 = 1 THEN Stat10 ELSE Stat20

\* below the width nothing is evicted (app.rs:112): column j of row i is the
\* cell of the j-th window
WarmRows(k) ==
    [i \in 1..Len(WarmSample(1).cpu_usage) |->
        [j \in 1..k |-> AsU8(CoreAvg(<<WarmSample(j)>>, i))]]

WarmPoint(k, series) ==
    LET acc == <<WarmSample(k)>> IN
    <<k, CASE series = "cpu" -> AvgCpu(acc)
           [] series = "ram" -> RamPercent(acc)
           [] series = "rx"  -> AvgRx(acc)
           [] series = "tx"  -> AvgTx(acc)>>

\* with a capacity of at least 1 a series keeps the newest `cap` points
\* (app.rs:120-134)
WarmSeries(k, cap, series) ==
    LET n == Min(k, cap) IN [j \in 1..n |-> WarmPoint(k - n + j, series)]

InitHeat ==
    /\ should_quit = FALSE
    /\ max_history_len = MaxCap
    /\ chart_tick_count = WarmColumns
    /\ cpu_core_history = WarmRows(WarmColumns)
    /\ heat_columns = WarmColumns
    /\ cpu_history_total = WarmSeries(WarmColumns, MaxCap, "cpu")
    /\ ram_history = WarmSeries(WarmColumns, MaxCap, "ram")
    /\ net_rx_history = WarmSeries(WarmColumns, MaxCap, "rx")
    /\ net_tx_history = WarmSeries(WarmColumns, MaxCap, "tx")
    /\ processes = SortProcs(WarmSample(WarmColumns).processes, TRUE)
    /\ last_stats = <<WarmSample(WarmColumns)>>
    /\ accumulated_stats = <<>>
    /\ process_scroll_state = 0
    /\ process_sort_by_cpu = TRUE
    /\ delivered = 0
    /\ last_op = "on_tick"
    /\ MonIdle
    /\ LoopInit

SpecHeat == InitHeat /\ [][NextApp]_vars

\* the App from its construction and the App with rows about to fill
InitCharts == InitApp \/ InitHeat

SpecCharts == InitCharts /\ [][NextApp]_vars

\* the scheduler thread, the channel and the consumer loop together, in a
\* build that checks integer overflow: the sleep or a slow period between two
\* wakes, the network totals gone or back
SysDelays == {SleepTicks, SlowInterval}

SysNetReadings == {<<0, 0>>, <<1000, 500>>}

InitSys ==
    /\ AppInit
    /\ max_history_len = MainHistoryLen
    /\ MonInit
    /\ net_rx_total = 1000
    /\ net_tx_total = 500
    /\ overflow_checks = TRUE
    /\ HostIs(HostA)
    /\ LoopInit

NextSys ==
    \/ /\ \E delay \in SysDelays, reading \in SysNetReadings,
             host \in HostReadings :
             Wake(delay, reading, host)
       /\ UNCHANGED <<app_vars, loop_vars>>
    \/ UiDraw
    \/ \E ev \in PollEvents : UiPoll(ev)
    \/ \E elapsed \in ElapsedReadings : UiRecvMsg(elapsed)
    \/ UiRecvEmpty

SpecSys == InitSys /\ [][NextSys]_vars

(* The two threads without end.  The clocks, the readings and what on_tick   *)
(* does to the App are left out, so that a run can go on forever within     *)
(* finitely many states: of an iteration of the scheduler the send (or the  *)
(* overflow that ends the thread) is kept, of a round of the drain the      *)
(* receive.                                                                 *)

\* the sample assembled from the readings as they stand
LiveSample ==
    Assemble(sys_cpu_usage, sys_ram_used, sys_ram_total, sys_processes,
             net_rx_total, net_tx_total,
             SpeedOf(WrappingSub(net_rx_total, prev_rx), now - last_net_check),
             SpeedOf(WrappingSub(net_tx_total, prev_tx), now - last_net_check),
             now)

\* monitor.rs:74-171  an iteration ends with the send, or with the panic of
\* the counter subtraction (monitor.rs:118-119) when a total went down
LiveWake(outcome) ==
    /\ mon_state = "running"
    /\ IF outcome = "panicked"
       THEN /\ overflow_checks
            /\ mon_state' = "panicked"
            /\ UNCHANGED chan_vars
       ELSE /\ Len(channel) < MaxQueue
            /\ mon_state' = AfterSend(rx_alive)
            /\ channel' = ChannelAfterSend(channel, rx_alive, LiveSample)
            /\ UNCHANGED produced
    /\ UNCHANGED <<now, last_fast_tick, last_slow_tick, prev_rx, prev_tx,
                   last_net_check, net_rx_total, net_tx_total, sent_stats,
                   overflow_checks, wakes, fast_fires, slow_fires,
                   fast_fired_at, slow_fired_at, host_vars, app_vars,
                   loop_vars>>

\* main.rs:90-95  one round of the drain that receives a sample
LiveRecvMsg ==
    /\ ui_pc = "drain"
    /\ channel # <<>>
    /\ channel' = Tail(channel)
    /\ ui_pc' = AfterApply(channel')
    /\ UNCHANGED <<app_vars, sched_vars, host_vars, produced, rx_alive,
                   applied, drain_mark>>

\* the steps of the consumer thread
LiveConsumer ==
    \/ UiDraw
    \/ \E ev \in PollEvents : UiPoll(ev)
    \/ LiveRecvMsg
    \/ UiRecvEmpty

\* the steps of the scheduler thread
LiveScheduler == \E outcome \in {"sent", "panicked"} : LiveWake(outcome)

NextLive == LiveScheduler \/ LiveConsumer

\* each thread that can take a step is scheduled in the end; which step a
\* thread takes is up to its code
SpecLive ==
    /\ InitSys
    /\ [][NextLive]_vars
    /\ WF_vars(LiveScheduler)
    /\ WF_vars(LiveConsumer)

-----------------------------------------------------------------------------
(* Properties of the App                                                    *)

Last(s) == s[Len(s)]

AllSeries == <<cpu_history_total, ram_history, net_rx_history, net_tx_history>>

\* the samples an aggregation in the current step works on: the window before
\* the step, with the sample the step delivers (last_stats', app.rs:73)
StepWindow ==
    IF delivered' # delivered
    THEN Append(accumulated_stats, last_stats'[1])
    ELSE accumulated_stats

\* the current step is an aggregation boundary that emits points
Emits == chart_tick_count' # chart_tick_count

\* the tick indices of a series are consecutive
Consecutive(series) ==
    \A i \in 1..(Len(series) - 1) : series[i + 1][1] = series[i][1] + 1

\* C1: every history series holds at most max_history_len points, for every
\* capacity App::new accepts.
C1_LengthWithinCapacity ==
    \A i \in 1..4 : Len(AllSeries[i]) <= max_history_len

\* C2: once at least max_history_len points have been appended, a series
\* holds exactly max_history_len points, and they are the last ones appended,
\* oldest first (the points appended carry the tick indices 1, 2, ...).
C2_LastNRetained ==
    chart_tick_count >= max_history_len =>
        \A i \in 1..4 :
            /\ Len(AllSeries[i]) = max_history_len
            /\ \A j \in 1..Len(AllSeries[i]) :
                  AllSeries[i][j][1] = chart_tick_count - max_history_len + j

\* (supporting C2) the same statement for the capacities of at least 1
C2_LastNRetainedPositiveCapacity ==
    max_history_len >= 1 => C2_LastNRetained

\* C3: the tick index starts at 0, grows by exactly 1 in every step that
\* appends points and in no other step (a sample delivery without boundary, a
\* key event), and the points of a series carry consecutive tick indices, the
\* newest being the current tick index.
C3_TickIndexStep ==
    [][ /\ last_op = "new" => chart_tick_count = 0
        /\ chart_tick_count' \in {chart_tick_count, chart_tick_count + 1}
        /\ (cpu_history_total' # cpu_history_total)
              <=> (chart_tick_count' = chart_tick_count + 1)
        /\ last_op' = "on_key" => chart_tick_count' = chart_tick_count
        /\ (last_op' = "on_tick" /\ accumulated_stats' # <<>>)
              => chart_tick_count' = chart_tick_count
        /\ \A i \in 1..4 :
              /\ Consecutive(AllSeries[i]')
              /\ AllSeries[i]' # <<>> => Last(AllSeries[i]')[1] = chart_tick_count'
      ]_vars

C3_Witness ==
    /\ chart_tick_count >= 2
    /\ Len(cpu_history_total) >= 2
    /\ last_op = "on_key"

\* C4: update_charts entered with an empty window changes nothing: no point
\* is appended to a series or a heatmap row and the tick index stays.
C4_EmptyWindowNoOp ==
    [][ (accumulated_stats = <<>> /\ last_op' \in {"boundary", "boundary_empty"})
           => /\ UNCHANGED <<chart_tick_count, cpu_history_total, ram_history,
                             net_rx_history, net_tx_history, cpu_core_history>>
              /\ accumulated_stats' = <<>>
      ]_vars

C4_Witness ==
    /\ last_op = "boundary_empty"
    /\ accumulated_stats = <<>>
    /\ chart_tick_count >= 1
    /\ cpu_history_total # <<>>

\* C5: the CPU point appended at a boundary is the arithmetic mean of the
\* aggregate CPU percentage of exactly the samples delivered since the
\* previous boundary; a delivery without boundary adds its sample to the
\* window and the boundary empties the window.
C5_CpuMeanOfWindow ==
    [][ /\ Emits =>
              LET w   == StepWindow
                  sum == SeqSum([k \in 1..Len(w) |-> w[k].total_cpu_usage])
                  v   == Last(cpu_history_total')[2]
              IN  /\ w # <<>>
                  /\ v.d # 0
                  /\ v.n * Len(w) = v.d * sum
                  /\ accumulated_stats' = <<>>
        /\ (~Emits /\ delivered' # delivered)
              => accumulated_stats' = Append(accumulated_stats, last_stats'[1])
      ]_vars

\* the window 10, 20, 30 has been aggregated into the single point 20
C5_Witness ==
    /\ delivered = 3
    /\ chart_tick_count = 1
    /\ accumulated_stats = <<>>
    /\ Last(cpu_history_total)[2] = [n |-> 20, d |-> 1]
    /\ Last(net_rx_history)[2] = [n |-> 4000, d |-> 3]

\* C6: when the first sample of the window has a non-zero memory total, the
\* memory point appended at the boundary is
\* 100 * mean(ram_used over the window) / (ram_total of the first sample).
C6_RamPercentOfFirstTotal ==
    [][ (Emits /\ StepWindow[1].ram_total # 0) =>
            LET w    == StepWindow
                used == SeqSum([k \in 1..Len(w) |-> w[k].ram_used])
                v    == Last(ram_history')[2]
            IN  /\ v.d # 0
                /\ v.n * (Len(w) * w[1].ram_total) = v.d * (100 * used)
      ]_vars

\* used = 50 of total = 200 has been aggregated into 25 percent
C6_Witness ==
    /\ delivered = 1
    /\ chart_tick_count = 1
    /\ last_stats = <<Stat10>>
    /\ ram_history # <<>>
    /\ Last(ram_history)[2] = [n |-> 25, d |-> 1]

\* C7: when the first sample of the window has memory total 0, the boundary
\* appends 0.0 to the memory series, and no NaN or infinite value is ever in
\* a history series.
C7_ZeroTotalYieldsZero ==
    [][ /\ (Emits /\ StepWindow[1].ram_total = 0)
              => Last(ram_history')[2] = [n |-> 0, d |-> 1]
        /\ \A i \in 1..4 : \A j \in 1..Len(AllSeries[i]') :
              IsFinite(AllSeries[i]'[j][2])
      ]_vars

-----------------------------------------------------------------------------
(* Properties of the scheduler                                              *)

\* the current step is a wake that assembles and sends a sample
Sends == wakes' # wakes /\ mon_state' = "running"

\* (current - previous) / elapsed seconds, cut to whole bytes per second, and
\* 0 when no time has elapsed
ClaimedSpeed(curr, prev, dt) ==
    IF dt > 0 THEN ((curr - prev) * TicksPerSec) \div dt ELSE 0

\* C8: the speed in a sample is (current counter - stored previous counter)
\* divided by the seconds elapsed since the stored previous measurement
\* instant, and 0 when that time is 0.
C8_SpeedFromCounters ==
    [][ Sends =>
          LET dt == now' - last_net_check IN
          /\ sent_stats'[1].rx_speed = ClaimedSpeed(net_rx_total', prev_rx, dt)
          /\ sent_stats'[1].tx_speed = ClaimedSpeed(net_tx_total', prev_tx, dt)
      ]_vars

\* (supporting C8) the same statement for the wakes whose readings are not
\* below the stored previous counters
C8_SpeedWhenCountersGrow ==
    [][ (Sends /\ net_rx_total' >= prev_rx /\ net_tx_total' >= prev_tx) =>
          LET dt == now' - last_net_check IN
          /\ sent_stats'[1].rx_speed = ClaimedSpeed(net_rx_total', prev_rx, dt)
          /\ sent_stats'[1].tx_speed = ClaimedSpeed(net_tx_total', prev_tx, dt)
      ]_vars

\* (supporting C8) previous = 1000, current = 3000 over 2 s is 1000 bytes/s
C8_ExampleReached ==
    /\ sent_stats # <<>>
    /\ sent_stats[1].rx_bytes = 3000
    /\ prev_rx = 3000
    /\ sent_stats[1].rx_speed = 1000
    /\ sent_stats[1].timestamp = last_net_check
    /\ slow_fired_at = now

\* C9: the stored previous counters and the previous measurement instant
\* change only in a wake that finds at least the threshold elapsed since the
\* previous measurement instant, which then becomes the instant of that wake;
\* every other wake leaves all three as they are.
C9_AdvanceOnlyAtThreshold ==
    [][ /\ (\/ prev_rx' # prev_rx
            \/ prev_tx' # prev_tx
            \/ last_net_check' # last_net_check)
              => /\ wakes' # wakes
                 /\ now' - last_net_check >= NetThreshold
                 /\ last_net_check' = now'
        /\ (wakes' # wakes /\ now' - last_net_check < NetThreshold)
              => UNCHANGED <<prev_rx, prev_tx, last_net_check>>
      ]_vars

\* the counters were advanced by an earlier wake and kept by the last one
C9_Witness ==
    /\ mon_state = "running"
    /\ last_net_check >= NetThreshold
    /\ prev_rx > 0
    /\ now > last_net_check
    /\ now - last_net_check < NetThreshold

\* C10: a wake fires each cadence at most once, the fast one exactly when its
\* interval has elapsed since its last fire and the slow one likewise; a fire
\* comes at least a full interval after the previous fire of that cadence,
\* also after a stall of several periods.
C10_OneFirePerWake ==
    [][ wakes' # wakes =>
          /\ fast_fires' <= 1
          /\ slow_fires' <= 1
          /\ (fast_fires' = 1) <=> (now' - last_fast_tick >= FastInterval)
          /\ (slow_fires' = 1) <=> (now' - last_slow_tick >= SlowInterval)
          /\ fast_fires' > 0 => now' - fast_fired_at >= FastInterval
          /\ slow_fires' > 0 => now' - slow_fired_at >= SlowInterval
      ]_vars

\* a stall of four slow periods fired the slow cadence once; the wake one
\* fast interval later fires the fast cadence and not the slow one
C10_Witness ==
    /\ wakes = 3
    /\ slow_fired_at >= 4 * SlowInterval
    /\ now = slow_fired_at + FastInterval
    /\ slow_fires = 0
    /\ fast_fires = 1

\* C20: a sample carries a non-zero network speed only when the interval the
\* byte difference was divided by is at least the advance threshold (500 ms);
\* no wake, the first ones after the start included, divides a non-zero
\* difference by a shorter interval.
C20_SpeedOverFullInterval ==
    [][ Sends =>
          ((sent_stats'[1].rx_speed # 0 \/ sent_stats'[1].tx_speed # 0)
              => now' - last_net_check >= NetThreshold)
      ]_vars

-----------------------------------------------------------------------------
(* Properties of the heatmap                                                *)

\* C16: after every boundary the heatmap has one row per core of the first
\* sample of the window just aggregated; when that number differs from the
\* number of rows before, all rows are emptied before the new column is
\* appended, so that every row holds exactly one value; a sample with fewer
\* cores counts as 0.0 and nothing traps.
C16_RowsMatchCoreCount ==
    [][ Emits =>
          LET core_count == Len(StepWindow[1].cpu_usage) IN
          /\ Len(cpu_core_history') = core_count
          /\ Len(cpu_core_history) # core_count
                => \A i \in 1..core_count : Len(cpu_core_history'[i]) = 1
          /\ Len(cpu_core_history) = core_count
                => \A i \in 1..core_count :
                      Len(cpu_core_history'[i]) = Len(cpu_core_history[i]) + 1
      ]_vars

\* the third boundary has replaced two rows by one row of one column, the
\* mean of a one-core and a two-core sample
C16_Witness ==
    /\ chart_tick_count = 3
    /\ Len(cpu_core_history) = 1
    /\ Len(cpu_core_history[1]) = 1
    /\ delivered = 4
    /\ last_stats = <<Stat10>>
    /\ cpu_core_history[1][1] = 20

\* C17: no heatmap row is ever longer than the width W = 100; a boundary that
\* finds a row of W values evicts the oldest and appends the new one, a
\* boundary that finds a shorter row only appends, so that a row holds the
\* last W values appended since its last reset, in order.
C17_RowWidth ==
    /\ [](\A i \in 1..Len(cpu_core_history) :
             Len(cpu_core_history[i]) <= HeatmapWidth)
    /\ [][ (Emits /\ Len(cpu_core_history) = Len(StepWindow[1].cpu_usage)) =>
             \A i \in 1..Len(cpu_core_history) :
                LET row  == cpu_core_history[i]
                    row2 == cpu_core_history'[i]
                IN  IF Len(row) >= HeatmapWidth
                    THEN /\ Len(row2) = HeatmapWidth
                         /\ SubSeq(row2, 1, HeatmapWidth - 1) = Tail(row)
                    ELSE SubSeq(row2, 1, Len(row)) = row
         ]_vars

\* two columns have been evicted from full rows
C17_Witness ==
    /\ chart_tick_count = HeatmapWidth + 2
    /\ Len(cpu_core_history) = 2
    /\ Len(cpu_core_history[1]) = HeatmapWidth
    /\ Len(cpu_core_history[2]) = HeatmapWidth
    /\ cpu_core_history[2][1] # cpu_core_history[2][2]

-----------------------------------------------------------------------------
(* Properties of the process ranking                                        *)

ActiveKey(by_cpu) == IF by_cpu THEN "cpu" ELSE "mem"

OrderedDesc(s, key) == \A i \in 1..(Len(s) - 1) : s[i][key] >= s[i + 1][key]

\* position of the process with the given pid in a list
PosOf(s, pid) == CHOOSE k \in 1..Len(s) : s[k].pid = pid

\* C14: a key event that moves the scroll position over a non-empty list
\* leaves it within [0, length - 1], whatever deliveries (also of shorter
\* lists) and key events came before.  A scroll event that does not move the
\* position found it at 0 or at length - 1.
C14_ScrollClamped ==
    [][ ( /\ last_op' \in {"on_key", "on_key_code"}
          /\ process_sort_by_cpu' = process_sort_by_cpu
          /\ process_scroll_state' # process_scroll_state
          /\ processes # <<>> )
           => /\ process_scroll_state' >= 0
              /\ process_scroll_state' <= Len(processes) - 1
      ]_vars

\* C15: the toggle flips the sort key, sets the scroll position to 0 and
\* leaves the view ordered by the new key, so that a view whose orders by CPU
\* and by memory differ is in another order right after the toggle.
C15_ToggleReorders ==
    [][ process_sort_by_cpu' # process_sort_by_cpu =>
          /\ process_scroll_state' = 0
          /\ OrderedDesc(processes', ActiveKey(process_sort_by_cpu'))
          /\ SortProcs(processes, TRUE) # SortProcs(processes, FALSE)
                => processes' # processes
      ]_vars

\* C18: after a delivery the view holds exactly the processes of the
\* delivered sample, ordered descending by the active key, and processes with
\* equal keys stand in the order they have in the sample.
C18_RankedView ==
    [][ delivered' # delivered =>
          LET src  == last_stats'[1].processes
              key  == ActiveKey(process_sort_by_cpu)
              view == processes'
          IN  /\ Len(view) = Len(src)
              /\ \A i \in 1..Len(src) : \E j \in 1..Len(view) : view[j] = src[i]
              /\ OrderedDesc(view, key)
              /\ \A i, j \in 1..Len(view) :
                    (i < j /\ view[i][key] = view[j][key])
                       => PosOf(src, view[i].pid) < PosOf(src, view[j].pid)
      ]_vars

\* a sample whose processes tie on the CPU is shown ranked by memory, and a
\* sample of more than one process ranked by the CPU was shown before
C18_Witness ==
    /\ delivered >= 2
    /\ ~process_sort_by_cpu
    /\ Len(processes) = 3
    /\ processes[1].pid = 2
    /\ processes[2].pid = 3
    /\ processes[3].pid = 1
    /\ last_stats[1].processes[1].pid = 1

\* C19: whichever key is active, the view after a delivery holds the
\* highest-ranked processes of the whole process table under that key.
C19_TopUnderActiveKey ==
    [][ delivered' # delivered =>
          processes' = Truncate(StableSortDesc(sys_processes',
                                               ActiveKey(process_sort_by_cpu)),
                                ProcessTruncate)
      ]_vars

-----------------------------------------------------------------------------
(* Properties of the channel and of the consumer loop                       *)

TimestampsOf(ch) == [i \in 1..Len(ch) |-> ch[i].timestamp]

\* C11: a wake that completes assembles one sample and hands it to the
\* channel once, and the scheduler can always take its next wake (the send
\* does not wait); with the receiver dropped the sample is queued nowhere and
\* the loop keeps running.  The thread ends in no other way than the
\* overflow of the counter subtraction, whatever the state of the receiver.
C11_FailedSendIgnored ==
    [][ /\ wakes' # wakes =>
            /\ mon_state' \in {"running", "panicked"}
            /\ mon_state' = "panicked" =>
                  /\ overflow_checks
                  /\ \/ Underflows(net_rx_total', prev_rx, now' - last_net_check)
                     \/ Underflows(net_tx_total', prev_tx, now' - last_net_check)
            /\ mon_state' = "running" =>
                  /\ sent_stats'[1].timestamp = now'
                  /\ rx_alive => channel' = Append(channel, sent_stats'[1])
                  /\ ~rx_alive => channel' = channel
        /\ (mon_state = "running" /\ wakes < MaxWakes) =>
              ENABLED (\E delay \in SysDelays, reading \in SysNetReadings,
                          host \in HostReadings : Wake(delay, reading, host))
      ]_vars

\* the consumer has returned after samples were queued, and a later wake has
\* assembled a sample that was queued nowhere
C11_Witness ==
    /\ ~rx_alive
    /\ mon_state = "running"
    /\ produced # <<>>
    /\ sent_stats # <<>>
    /\ sent_stats[1].timestamp > Last(produced)
    /\ wakes = MaxWakes

\* C12: the samples handed to on_tick are the samples put into the channel,
\* in the order they were put in: while the consumer runs, the samples
\* applied followed by the samples still queued are exactly the samples
\* produced, none twice.
C12_FifoDelivery ==
    /\ \A i, j \in 1..Len(produced) : i < j => produced[i] < produced[j]
    /\ Len(applied) <= Len(produced)
    /\ applied = SubSeq(produced, 1, Len(applied))
    /\ rx_alive => produced = applied \o TimestampsOf(channel)

\* samples have been applied out of a channel that held several at once
C12_Witness ==
    /\ Len(applied) >= 3
    /\ Len(channel) >= 1
    /\ drain_mark - Len(applied) >= 1
    /\ ui_pc = "drain"

\* C13: the drain leaves its loop only on finding the channel empty, and
\* every render comes after a drain that applied every sample that was in the
\* channel when that drain began.
C13_DrainAppliesAll ==
    [][ /\ (ui_pc = "drain" /\ ui_pc' # "drain")
              => (channel = <<>> /\ ui_pc' = "draw")
        /\ ui_pc' = "draw" => Len(applied') >= drain_mark'
      ]_vars

\* a render after a drain that began with two samples queued and applied a
\* third one that arrived meanwhile
C13_Witness ==
    /\ ui_pc = "poll"
    /\ drain_mark = 2
    /\ Len(applied) = 3
    /\ channel = <<>>

-----------------------------------------------------------------------------
(* Properties of the network speed                                          *)

\* C21: a sample assembled on a wake on which the slow cadence did not fire
\* carries the network speeds of the sample before it, so that every sample
\* up to the next slow refresh reports the speeds of the sample of the last
\* slow refresh.
C21_SpeedReusedBetweenRefreshes ==
    [][ (Sends /\ slow_fires' = 0 /\ slow_fired_at > 0 /\ sent_stats # <<>>) =>
          /\ sent_stats'[1].rx_speed = sent_stats[1].rx_speed
          /\ sent_stats'[1].tx_speed = sent_stats[1].tx_speed
      ]_vars

\* C24: whatever totals the network refresh returns, also totals below the
\* stored previous ones, the wake completes, the thread keeps running, and the
\* speed of a counter that went down is 0.
C24_CounterDropYieldsZero ==
    [][ wakes' # wakes =>
          /\ mon_state' = "running"
          /\ sent_stats' # <<>>
          /\ net_rx_total' < prev_rx => sent_stats'[1].rx_speed = 0
          /\ net_tx_total' < prev_tx => sent_stats'[1].tx_speed = 0
      ]_vars

-----------------------------------------------------------------------------
(* Further properties of the charts                                         *)

\* C22: with per-core percentages within 0..100, the value a boundary appends
\* to the row of a core is a whole number within 0..100, the mean of the
\* core's percentage over the window cut to a whole number, where a sample of
\* the window without that core counts as 0.
C22_HeatmapQuantised ==
    [][ Emits =>
          LET w == StepWindow IN
          /\ \A k \in 1..Len(w) : \A i \in 1..Len(w[k].cpu_usage) :
                w[k].cpu_usage[i] \in 0..100
          /\ \A i \in 1..Len(cpu_core_history') :
                LET sum == SeqSum([k \in 1..Len(w) |->
                                     IF i <= Len(w[k].cpu_usage)
                                     THEN w[k].cpu_usage[i] ELSE 0])
                    cell == Last(cpu_core_history'[i])
                IN  /\ cell \in 0..100
                    /\ cell = sum \div Len(w)
      ]_vars

\* the window of 30, nothing (a one-core sample) and 10 on the second core
\* has been appended as 13
C22_Witness ==
    /\ delivered = 3
    /\ chart_tick_count = 1
    /\ Len(cpu_core_history) = 2
    /\ Last(cpu_core_history[2]) = 13
    /\ Last(cpu_core_history[1]) = 16

\* C25: in every state the four series have the same length and their points
\* at equal positions carry the same tick index; all heatmap rows have the
\* same length, which is at most the number of boundaries since the rows were
\* last reset.
C25_SeriesAligned ==
    /\ \A i \in 1..4 :
          /\ Len(AllSeries[i]) = Len(cpu_history_total)
          /\ \A j \in 1..Len(AllSeries[i]) :
                AllSeries[i][j][1] = cpu_history_total[j][1]
    /\ \A i \in 1..Len(cpu_core_history) :
          /\ Len(cpu_core_history[i]) = Len(cpu_core_history[1])
          /\ Len(cpu_core_history[i]) <= heat_columns

\* full rows that have lost a column, beside series at their capacity
C25_Witness ==
    /\ heat_columns = HeatmapWidth + 1
    /\ Len(cpu_core_history) = 2
    /\ Len(cpu_core_history[2]) = HeatmapWidth
    /\ Len(net_tx_history) = max_history_len
    /\ Last(net_tx_history)[1] = chart_tick_count
    /\ accumulated_stats # <<>>

-----------------------------------------------------------------------------
(* Progress of the consumer loop                                            *)

\* C23: with both threads scheduled fairly and the scheduler sending without
\* end, a drain that has begun ends, and the loop comes to its next draw.
C23_DrainTerminates == (ui_pc = "drain") ~> (ui_pc = "draw")

\* (supporting C23) once the scheduler thread has ended, a drain that has
\* begun ends
C23_DrainEndsOnceSchedulerEnded ==
    (ui_pc = "drain" /\ mon_state = "panicked") ~> (ui_pc = "draw")

\* (supporting C23) the poll is always followed by the drain or the return
C23_PollReturns == (ui_pc = "poll") ~> (ui_pc \in {"drain", "done"})

====
